---- MODULE Spec2Model ----
(***************************************************************************)
(* Model of backend/server.py: the expense tracker's request handlers     *)
(* over three document collections (categories, transactions, reminders).  *)
(* The store calls a handler awaits are operators.  A handler that awaits  *)
(* the store once is one action; a handler that awaits it several times    *)
(* (get_categories, the three updates, get_last_six_months,                *)
(* reset_all_data) is one action per await, so that other requests run     *)
(* between its awaits.                                                     *)
(*                                                                         *)
(* Encodings                                                               *)
(*   Optional[T]  : None is <<>>, a value v is <<v>>                       *)
(*   uuid4 ids    : fresh naturals taken from the counter nextId           *)
(*   datetime     : an integer that orders instants as datetime does       *)
(*   float amount : integers; percentages are kept in tenths               *)
(*   glyph icons  : ASCII stand-ins for the emoji of the source            *)
(*   CSV text     : a sequence of pieces (strings); a note that the export *)
(*                  renders is one character per piece                     *)
(***************************************************************************)
EXTENDS Integers, Sequences, FiniteSets, TLC

VARIABLES categories, transactions, reminders, nextId, now, response, calls

vars == <<categories, transactions, reminders, nextId, now, response, calls>>

(***************************************************************************)
(* Bounds of the model.                                                    *)
(***************************************************************************)
MaxId == 3
MaxTx == 2
MaxAmount == 3
NumYears == 1
NumCalls == 2

(***************************************************************************)
(* Optional values.                                                        *)
(***************************************************************************)
None == <<>>

Some(v) == <<v>>

Min(a, b) == IF a <= b THEN a ELSE b

(***************************************************************************)
(* datetime(year, month, day, hour) and its month and year attributes.    *)
(***************************************************************************)
datetime(year, month, day, hour) ==
    ((year * 12 + (month - 1)) * 31 + (day - 1)) * 24 + hour

MonthOf(d) == ((d \div (24 * 31)) % 12) + 1

YearOf(d) == (d \div (24 * 31)) \div 12

DayOf(d) == ((d \div 24) % 31) + 1

(***************************************************************************)
(* Handlers in flight.  A handler that awaits the store more than once can *)
(* be overtaken between two awaits; calls[p] is where request p stands and *)
(* what it holds in its local variables.                                   *)
(***************************************************************************)
Procs == 1..NumCalls

Idle == [op |-> "none", pc |-> "idle"]

NoCalls == [p \in Procs |-> Idle]

\* no handler is between two awaits
AllIdle == \A p \in Procs : calls[p] = Idle

\* no handler but that of request p is between two awaits
OthersIdle(p) == \A q \in Procs \ {p} : calls[q] = Idle

(***************************************************************************)
(* The record store: find / to_list / insert_one / update_one /           *)
(* delete_one / delete_many of the driver.                                 *)
(***************************************************************************)
\* a query document: equality on type and category_id, $gte / $lte / $lt on
\* date; a key that is absent from the query (None here) constrains nothing
NoQuery == [type |-> None, category_id |-> None, gte |-> None, lte |-> None, lt |-> None]

\* a variant that reads $lt as $lte
MatchesInclusive(doc, query) ==
    /\ query.type # None => doc.type = query.type[1]
    /\ query.category_id # None => doc.category_id = query.category_id[1]
    /\ query.gte # None => doc.date >= query.gte[1]
    /\ query.lte # None => doc.date <= query.lte[1]
    /\ query.lt # None => doc.date <= query.lt[1]

Matches(doc, query) ==
    /\ query.type # None => doc.type = query.type[1]
    /\ query.category_id # None => doc.category_id = query.category_id[1]
    /\ query.gte # None => doc.date >= query.gte[1]
    /\ query.lte # None => doc.date <= query.lte[1]
    /\ query.lt # None => doc.date < query.lt[1]

find(coll, query) == SelectSeq(coll, LAMBDA doc : Matches(doc, query))

to_list(cursor, length) == SubSeq(cursor, 1, Min(length, Len(cursor)))

\* a variant that skips a document whose name the collection already holds
insert_one_if_absent(coll, doc) ==
    IF \E i \in 1..Len(coll) : coll[i].name = doc.name THEN coll ELSE Append(coll, doc)

insert_one(coll, doc) == Append(coll, doc)

\* index of the first document with this id, 0 when there is none
FirstWithId(coll, id) ==
    IF \E i \in 1..Len(coll) : coll[i].id = id
    THEN CHOOSE i \in 1..Len(coll) :
            /\ coll[i].id = id
            /\ \A j \in 1..(i - 1) : coll[j].id # id
    ELSE 0

find_one(coll, id) ==
    IF FirstWithId(coll, id) = 0 THEN None ELSE Some(coll[FirstWithId(coll, id)])

\* {"$set": update_data} applied to one document
ApplySet(doc, data) ==
    [k \in (DOMAIN doc) \cup (DOMAIN data) |->
        IF k \in DOMAIN data THEN data[k] ELSE doc[k]]

\* update_one({"id": id}, {"$set": data}): modified_count counts the
\* documents whose content changed, not the documents matched
update_one(coll, id, data) ==
    LET i == FirstWithId(coll, id) IN
    IF i = 0
    THEN [coll |-> coll, matched_count |-> 0, modified_count |-> 0]
    ELSE LET doc == ApplySet(coll[i], data) IN
         [coll |-> [coll EXCEPT ![i] = doc],
          matched_count |-> 1,
          modified_count |-> IF doc = coll[i] THEN 0 ELSE 1]

\* a variant that reports success without removing anything
delete_one_keep(coll, id) ==
    [coll |-> coll, deleted_count |-> IF FirstWithId(coll, id) = 0 THEN 0 ELSE 1]

delete_one(coll, id) ==
    LET i == FirstWithId(coll, id) IN
    IF i = 0
    THEN [coll |-> coll, deleted_count |-> 0]
    ELSE [coll |-> SubSeq(coll, 1, i - 1) \o SubSeq(coll, i + 1, Len(coll)),
          deleted_count |-> 1]

delete_many(coll) == <<>>

\* the orders sort(key, direction) may return: documents with equal keys
\* come back in any order
sort(cursor, key, direction) ==
    LET n == Len(cursor)
        perms == {[i \in 1..n |-> cursor[f[i]]] : f \in Permutations(1..n)}
    IN  {p \in perms :
            \A i \in 1..n : \A j \in (i + 1)..n :
                IF direction = 1 THEN p[i][key] <= p[j][key]
                                 ELSE p[i][key] >= p[j][key]}

(***************************************************************************)
(* Request bodies: the dict of a pydantic model and the non-null part of  *)
(* an update model.                                                        *)
(***************************************************************************)
\* a variant that forgets the `if v is not None` filter
update_data_unfiltered(patch) == [k \in DOMAIN patch |-> patch[k]]

\* {k: v for k, v in model.dict().items() if v is not None}
update_data(patch) ==
    [k \in {f \in DOMAIN patch : patch[f] # None} |-> patch[k][1]]

\* what the handler found when it started: the size of each collection
\* (kept in the response so that properties can tell the calls apart)
Before ==
    [categories |-> Len(categories), transactions |-> Len(transactions),
     reminders |-> Len(reminders)]

\* raise HTTPException(status_code, detail)
HTTPException(op, args, status_code, detail) ==
    [op |-> op, args |-> args, status |-> status_code, body |-> detail, before |-> Before]

\* an uncaught pydantic ValidationError: the framework answers 500
ValidationError(op, args) ==
    [op |-> op, args |-> args, status |-> 500, body |-> "validation error", before |-> Before]

\* a returned value
Return(op, args, body) ==
    [op |-> op, args |-> args, status |-> 200, body |-> body, before |-> Before]

\* Model(**None), find_one having found nothing: the framework answers 500
TypeError(op, args) ==
    [op |-> op, args |-> args, status |-> 500, body |-> "type error", before |-> Before]

\* the answer of a handler that started when the collections had the sizes
\* `before`
Since(before, resp) == [resp EXCEPT !.before = before]

\* a handler between update_one and find_one
UpdateCall(op, id, patch, before) ==
    [op |-> op, pc |-> "find_one", id |-> id, patch |-> patch, before |-> before]

(***************************************************************************)
(* Categories.                                                             *)
(***************************************************************************)
CategoryListCap == 100

DefaultColor == "#6366F1"

DefaultIcon == "icon-money"

DEFAULT_CATEGORIES ==
    << [name |-> "Food",          color |-> "#EF4444", icon |-> "icon-burger"],
       [name |-> "Rent",          color |-> "#8B5CF6", icon |-> "icon-house"],
       [name |-> "Transport",     color |-> "#3B82F6", icon |-> "icon-car"],
       [name |-> "Shopping",      color |-> "#EC4899", icon |-> "icon-bags"],
       [name |-> "Bills",         color |-> "#F59E0B", icon |-> "icon-page"],
       [name |-> "Entertainment", color |-> "#10B981", icon |-> "icon-film"],
       [name |-> "Salary",        color |-> "#22C55E", icon |-> "icon-cash"],
       [name |-> "Investments",   color |-> "#6366F1", icon |-> "icon-chart"] >>

\* Category(**fields): id from uuid4, created_at from utcnow
Category(id, fields, t) ==
    [id |-> id, name |-> fields.name, color |-> fields.color,
     icon |-> fields.icon, created_at |-> t]

\* the documents the seeding loop inserts, in order
SeedDocs(first, t) ==
    [i \in 1..Len(DEFAULT_CATEGORIES) |->
        Category(first + i - 1, DEFAULT_CATEGORIES[i], t)]

\* a variant that seeds on every call
SeedAlways(found) == TRUE

\* `if not categories`
SeedNeeded(found) == found = <<>>

\* a call inside the seeding loop, about to insert DEFAULT_CATEGORIES[i],
\* or past it (pc "find") and about to read again
ListCall(pc, i, before) ==
    [op |-> "get_categories", pc |-> pc, i |-> i, before |-> before]

\* categories = await db.categories.find().to_list(100); if not categories
get_categories_find(p) ==
    LET found == to_list(categories, CategoryListCap) IN
    /\ calls[p] = Idle
    /\ IF SeedNeeded(found)
       THEN /\ calls' = [calls EXCEPT ![p] = ListCall("insert_one", 1, Before)]
            /\ UNCHANGED response
       ELSE /\ response' = Return("get_categories", None, found)
            /\ UNCHANGED calls
    /\ UNCHANGED <<categories, transactions, reminders, nextId, now>>

\* one turn of the loop: cat = Category(**cat_data); await insert_one(cat.dict())
get_categories_insert(p) ==
    /\ calls[p] # Idle
    /\ calls[p].op = "get_categories"
    /\ calls[p].pc = "insert_one"
    /\ LET i == calls[p].i
           cat == Category(nextId, DEFAULT_CATEGORIES[i], now)
       IN  /\ categories' = insert_one(categories, cat)
           /\ nextId' = nextId + 1
           /\ calls' = [calls EXCEPT ![p] =
                  ListCall(IF i = Len(DEFAULT_CATEGORIES) THEN "find" ELSE "insert_one",
                           i + 1, calls[p].before)]
    /\ UNCHANGED <<transactions, reminders, now, response>>

\* categories = await db.categories.find().to_list(100); return
get_categories_reread(p) ==
    LET found == to_list(categories, CategoryListCap) IN
    /\ calls[p] # Idle
    /\ calls[p].op = "get_categories"
    /\ calls[p].pc = "find"
    /\ calls' = [calls EXCEPT ![p] = Idle]
    /\ response' = Since(calls[p].before, Return("get_categories", None, found))
    /\ UNCHANGED <<categories, transactions, reminders, nextId, now>>

\* category: a CategoryCreate; color and icon are Optional but Category wants str
create_category(category) ==
    /\ nextId <= MaxId
    /\ IF category.color = None \/ category.icon = None
       THEN /\ response' = ValidationError("create_category", category)
            /\ UNCHANGED <<categories, transactions, reminders, nextId, now, calls>>
       ELSE LET cat_obj == Category(nextId,
                                    [name |-> category.name,
                                     color |-> category.color[1],
                                     icon |-> category.icon[1]], now) IN
            /\ categories' = insert_one(categories, cat_obj)
            /\ nextId' = nextId + 1
            /\ response' = Return("create_category", category, cat_obj)
            /\ UNCHANGED <<transactions, reminders, now, calls>>

\* up to `result = await db.categories.update_one(...)` and the 404 test
update_category_update_one(p, category_id, category) ==
    LET data == update_data(category)
        args == [id |-> category_id, patch |-> category]
        result == update_one(categories, category_id, data)
    IN  /\ calls[p] = Idle
        /\ IF DOMAIN data = {}
           THEN /\ response' = HTTPException("update_category", args, 400, "No data to update")
                /\ UNCHANGED <<categories, calls>>
           ELSE /\ categories' = result.coll
                /\ IF result.modified_count = 0
                   THEN /\ response' = HTTPException("update_category", args, 404,
                                                     "Category not found")
                        /\ UNCHANGED calls
                   ELSE /\ calls' = [calls EXCEPT ![p] =
                               UpdateCall("update_category", category_id, category, Before)]
                        /\ UNCHANGED response
        /\ UNCHANGED <<transactions, reminders, nextId, now>>

\* `updated = await db.categories.find_one(...)`; return Category(**updated)
update_category_find_one(p) ==
    /\ calls[p] # Idle
    /\ calls[p].op = "update_category"
    /\ LET args == [id |-> calls[p].id, patch |-> calls[p].patch]
           updated == find_one(categories, calls[p].id)
       IN  response' = Since(calls[p].before,
                             IF updated = None
                             THEN TypeError("update_category", args)
                             ELSE Return("update_category", args, updated[1]))
    /\ calls' = [calls EXCEPT ![p] = Idle]
    /\ UNCHANGED <<categories, transactions, reminders, nextId, now>>

\* a variant that cascades: it also removes the transactions of the category
delete_category_cascade(category_id) ==
    LET result == delete_one(categories, category_id)
        args == [id |-> category_id]
    IN  /\ categories' = result.coll
        /\ transactions' = SelectSeq(transactions, LAMBDA t : t.category_id # category_id)
        /\ response' = IF result.deleted_count = 0
                       THEN HTTPException("delete_category", args, 404, "Category not found")
                       ELSE Return("delete_category", args, "Category deleted successfully")
        /\ UNCHANGED <<reminders, nextId, now, calls>>

delete_category(category_id) ==
    LET result == delete_one(categories, category_id)
        args == [id |-> category_id]
    IN  /\ categories' = result.coll
        /\ response' = IF result.deleted_count = 0
                       THEN HTTPException("delete_category", args, 404, "Category not found")
                       ELSE Return("delete_category", args, "Category deleted successfully")
        /\ UNCHANGED <<transactions, reminders, nextId, now, calls>>

(***************************************************************************)
(* Transactions.                                                           *)
(***************************************************************************)
\* Transaction(**transaction.dict()): category_name is declared str, so a
\* null category_name is rejected; note is Optional and may be stored null
Transaction(id, f, t) ==
    [id |-> id, amount |-> f.amount, category_id |-> f.category_id,
     category_name |-> f.category_name[1], type |-> f.type, date |-> f.date,
     note |-> f.note, is_recurring |-> f.is_recurring, created_at |-> t]

create_transaction(transaction) ==
    /\ nextId <= MaxId
    /\ Len(transactions) < MaxTx
    /\ IF transaction.category_name = None
       THEN /\ response' = ValidationError("create_transaction", transaction)
            /\ UNCHANGED <<categories, transactions, reminders, nextId, now, calls>>
       ELSE LET trans_obj == Transaction(nextId, transaction, now) IN
            /\ transactions' = insert_one(transactions, trans_obj)
            /\ nextId' = nextId + 1
            /\ response' = Return("create_transaction", transaction, trans_obj)
            /\ UNCHANGED <<categories, reminders, now, calls>>

\* up to `result = await db.transactions.update_one(...)` and the 404 test
update_transaction_update_one(p, transaction_id, transaction) ==
    LET data == update_data(transaction)
        args == [id |-> transaction_id, patch |-> transaction]
        result == update_one(transactions, transaction_id, data)
    IN  /\ calls[p] = Idle
        /\ IF DOMAIN data = {}
           THEN /\ response' = HTTPException("update_transaction", args, 400, "No data to update")
                /\ UNCHANGED <<transactions, calls>>
           ELSE /\ transactions' = result.coll
                /\ IF result.modified_count = 0
                   THEN /\ response' = HTTPException("update_transaction", args, 404,
                                                     "Transaction not found")
                        /\ UNCHANGED calls
                   ELSE /\ calls' = [calls EXCEPT ![p] =
                               UpdateCall("update_transaction", transaction_id, transaction, Before)]
                        /\ UNCHANGED response
        /\ UNCHANGED <<categories, reminders, nextId, now>>

\* `updated = await db.transactions.find_one(...)`; return Transaction(**updated)
update_transaction_find_one(p) ==
    /\ calls[p] # Idle
    /\ calls[p].op = "update_transaction"
    /\ LET args == [id |-> calls[p].id, patch |-> calls[p].patch]
           updated == find_one(transactions, calls[p].id)
       IN  response' = Since(calls[p].before,
                             IF updated = None
                             THEN TypeError("update_transaction", args)
                             ELSE Return("update_transaction", args, updated[1]))
    /\ calls' = [calls EXCEPT ![p] = Idle]
    /\ UNCHANGED <<categories, transactions, reminders, nextId, now>>

delete_transaction(transaction_id) ==
    LET result == delete_one(transactions, transaction_id)
        args == [id |-> transaction_id]
    IN  /\ transactions' = result.coll
        /\ response' = IF result.deleted_count = 0
                       THEN HTTPException("delete_transaction", args, 404, "Transaction not found")
                       ELSE Return("delete_transaction", args, "Transaction deleted successfully")
        /\ UNCHANGED <<categories, reminders, nextId, now, calls>>

\* an uncaught ValueError (datetime out of range, fromisoformat on a
\* malformed string): the framework answers 500
ValueError(op, args) ==
    [op |-> op, args |-> args, status |-> 500, body |-> "value error", before |-> Before]

TransactionListCap == 1000

\* a date string of a query parameter: the empty string, an ISO-8601 text
\* (given by its components) or a text that does not parse
EmptyStr == [kind |-> "empty", year |-> 0, month |-> 0, day |-> 0, hour |-> 0]

Malformed == [kind |-> "malformed", year |-> 0, month |-> 0, day |-> 0, hour |-> 0]

IsoStr(year, month, day, hour) ==
    [kind |-> "iso", year |-> year, month |-> month, day |-> day, hour |-> hour]

\* datetime.fromisoformat(s.replace('Z', '+00:00')) of a well-formed text
fromisoformat(s) == datetime(s.year, s.month, s.day, s.hour)

\* `if start_date:` -- None and the empty string are both falsy
TruthyDate(o) == o # None /\ o[1].kind # "empty"

\* `if category_id:`
TruthyStr(o) == o # None /\ o[1] # ""

\* a variant that forgets the end_date bound
TransactionQueryNoEnd(type, category_id, start_date, end_date) ==
    [type |-> type,
     category_id |-> IF TruthyStr(category_id) THEN category_id ELSE None,
     gte |-> IF TruthyDate(start_date) THEN Some(fromisoformat(start_date[1])) ELSE None,
     lte |-> None,
     lt |-> None]

\* the query dict get_transactions builds
TransactionQuery(type, category_id, start_date, end_date) ==
    [type |-> type,
     category_id |-> IF TruthyStr(category_id) THEN category_id ELSE None,
     gte |-> IF TruthyDate(start_date) THEN Some(fromisoformat(start_date[1])) ELSE None,
     lte |-> IF TruthyDate(end_date) THEN Some(fromisoformat(end_date[1])) ELSE None,
     lt |-> None]

\* find(query).sort("date", -1).to_list(length): the lists it may return
SortedPage(coll, query, length) ==
    {to_list(sorted, length) : sorted \in sort(find(coll, query), "date", -1)}

get_transactions(type, category_id, start_date, end_date) ==
    LET args == [type |-> type, category_id |-> category_id,
                 start_date |-> start_date, end_date |-> end_date]
    IN  /\ IF \/ (TruthyDate(start_date) /\ start_date[1].kind = "malformed")
              \/ (TruthyDate(end_date) /\ end_date[1].kind = "malformed")
           THEN response' = ValueError("get_transactions", args)
           ELSE \E page \in SortedPage(transactions,
                                       TransactionQuery(type, category_id, start_date, end_date),
                                       TransactionListCap) :
                   response' = Return("get_transactions", args, page)
        /\ UNCHANGED <<categories, transactions, reminders, nextId, now, calls>>

(***************************************************************************)
(* Analytics.                                                              *)
(***************************************************************************)
AnalyticsCap == 1000

\* datetime.MINYEAR and datetime.MAXYEAR
MINYEAR == 1

MAXYEAR == 9999

\* datetime(year, month, 1) raises ValueError outside these ranges
ValidDate(year, month) == year \in MINYEAR..MAXYEAR /\ month \in 1..12

\* start_date and end_date of the month window can both be built
ValidWindow(year, month) ==
    /\ ValidDate(year, month)
    /\ IF month = 12 THEN ValidDate(year + 1, 1) ELSE ValidDate(year, month + 1)

\* end_date of the month window: December rolls into January of year + 1
NextMonthStart(year, month) ==
    IF month = 12 THEN datetime(year + 1, 1, 1, 0) ELSE datetime(year, month + 1, 1, 0)

\* {"date": {"$gte": start_date, "$lt": end_date}}
MonthWindow(year, month) ==
    [NoQuery EXCEPT !.gte = Some(datetime(year, month, 1, 0)),
                    !.lt = Some(NextMonthStart(year, month))]

\* sum(t["amount"] for t in transactions if t["type"] == type)
RECURSIVE sum_amount(_, _)
sum_amount(txs, type) ==
    IF txs = <<>> THEN 0
    ELSE (IF Head(txs).type = type THEN Head(txs).amount ELSE 0)
            + sum_amount(Tail(txs), type)

\* dict.get(key, default): the default is used only when the key is absent
get(doc, key, default) == IF key \in DOMAIN doc THEN doc[key] ELSE default

\* the category_breakdown loop
RECURSIVE category_breakdown(_, _)
category_breakdown(txs, acc) ==
    IF txs = <<>> THEN acc
    ELSE LET t == Head(txs)
             cat_name == get(t, "category_name", "Other")
         IN  IF t.type = "expense"
             THEN category_breakdown(Tail(txs),
                     [k \in (DOMAIN acc) \cup {cat_name} |->
                         IF k = cat_name
                         THEN get(acc, cat_name, 0) + t.amount
                         ELSE acc[k]])
             ELSE category_breakdown(Tail(txs), acc)

\* A float (IEEE 754 binary64) is kept exactly: a positive value is
\* [m, k] with m = <<t, l1, l2, l3, l4>>, five digits in base Limb, and
\* stands for (t + l1/Limb + l2/Limb^2 + l3/Limb^3 + l4/Limb^4) * 2^k.
\* Four digits of 13 bits are the 52 bits after the leading one.
Limb == 8192

\* the digits of m brought back below Limb, the carries going up into t
carry(m) ==
    LET l4 == m[5]
        l3 == m[4] + (l4 \div Limb)
        l2 == m[3] + (l3 \div Limb)
        l1 == m[2] + (l2 \div Limb)
    IN  <<m[1] + (l1 \div Limb), l1 % Limb, l2 % Limb, l3 % Limb, l4 % Limb>>

\* m * n for a small natural n, exactly
scale(m, n) == carry([i \in 1..5 |-> m[i] * n])

\* the j >= 0 with b <= a * 2^j < 2 * b, for 0 < a < b
RECURSIVE shifts_up(_, _)
shifts_up(a, b) == IF a >= b THEN 0 ELSE 1 + shifts_up(2 * a, b)

\* the k >= 0 with b * 2^k <= a < b * 2^(k + 1), for a >= b > 0
RECURSIVE shifts_down(_, _)
shifts_down(a, b) == IF a < 2 * b THEN 0 ELSE 1 + shifts_down(a, 2 * b)

\* a / b of two floats that hold the positive integers a and b: the
\* quotient rounded to 53 bits, a tie going to the even one
float_div(a, b) ==
    LET k == IF a >= b THEN shifts_down(a, b) ELSE 0 - shifts_up(a, b)
        n == IF k < 0 THEN a * 2^(0 - k) ELSE a
        d == IF k > 0 THEN b * 2^k ELSE b
        r0 == n - d
        r1 == (r0 * Limb) % d
        r2 == (r1 * Limb) % d
        r3 == (r2 * Limb) % d
        r4 == (r3 * Limb) % d
        l4 == (r3 * Limb) \div d
        up == 2 * r4 > d \/ (2 * r4 = d /\ l4 % 2 = 1)
    IN  [m |-> carry(<<1, (r0 * Limb) \div d, (r1 * Limb) \div d,
                       (r2 * Limb) \div d, l4 + (IF up THEN 1 ELSE 0)>>),
         k |-> k]

\* x * 100 of a float x: the product rounded to 53 bits, a tie going to
\* the even one; the product of a 53-bit x has 59 or 60 bits
float_mul100(x) ==
    LET y == scale(x.m, 100)
        s == IF y[1] < 128 THEN 64 ELSE 128
        low == y[5] % s
        keep == y[5] - low
        up == 2 * low > s \/ (2 * low = s /\ (keep \div s) % 2 = 1)
    IN  [m |-> carry(<<y[1], y[2], y[3], y[4], keep + (IF up THEN s ELSE 0)>>),
         k |-> x.k]

\* round(x, 1) of a positive float x, in tenths: the tenth nearest to the
\* value the float holds, a tie going to the even one
float_round1(x) ==
    LET z == IF x.k >= 0 THEN scale(x.m, 10 * 2^(x.k)) ELSE scale(x.m, 10)
        j == IF x.k >= 0 THEN 0 ELSE 0 - x.k
        n == z[1] \div 2^j
        rem == z[1] % 2^j
        rest == z[2] # 0 \/ z[3] # 0 \/ z[4] # 0 \/ z[5] # 0
        \* twice the fraction of 10 * x against one
        above == IF j = 0
                 THEN 2 * z[2] > Limb \/ (2 * z[2] = Limb /\ (z[3] # 0 \/ z[4] # 0 \/ z[5] # 0))
                 ELSE 2 * rem > 2^j \/ (2 * rem = 2^j /\ rest)
        tie == IF j = 0
               THEN 2 * z[2] = Limb /\ z[3] = 0 /\ z[4] = 0 /\ z[5] = 0
               ELSE 2 * rem = 2^j /\ ~rest
    IN  IF tie THEN n + (n % 2) ELSE IF above THEN n + 1 ELSE n

\* a variant that truncates instead of rounding
truncate1(net_balance, total_income) == (1000 * net_balance) \div total_income

\* round(net_balance / total_income * 100, 1) in tenths of a percent, for
\* total_income > 0: the division and the product are float operations,
\* each rounded to 53 bits, and round() takes the tenth nearest to the
\* float they leave; the sign goes through all three unchanged
round1(net_balance, total_income) ==
    LET a == IF net_balance < 0 THEN 0 - net_balance ELSE net_balance
        t == float_round1(float_mul100(float_div(a, total_income)))
    IN  IF net_balance = 0 THEN 0
        ELSE IF net_balance < 0 THEN 0 - t ELSE t

\* round(savings_percentage, 1), in tenths
savings_percentage(net_balance, total_income) ==
    IF total_income > 0 THEN round1(net_balance, total_income) ELSE 0

get_monthly_analytics(year, month) ==
    LET args == [year |-> year, month |-> month]
        txs == to_list(find(transactions, MonthWindow(year, month)), AnalyticsCap)
        total_income == sum_amount(txs, "income")
        total_expense == sum_amount(txs, "expense")
        net_balance == total_income - total_expense
    IN  /\ IF ~ValidWindow(year, month)
           THEN response' = ValueError("get_monthly_analytics", args)
           ELSE response' = Return("get_monthly_analytics", args,
                    [year |-> year, month |-> month,
                     total_income |-> total_income,
                     total_expense |-> total_expense,
                     net_balance |-> net_balance,
                     savings_percentage |-> savings_percentage(net_balance, total_income),
                     category_breakdown |-> category_breakdown(txs, [k \in {} |-> 0]),
                     transaction_count |-> Len(txs)])
        /\ UNCHANGED <<categories, transactions, reminders, nextId, now, calls>>

month_names ==
    <<"Jan", "Feb", "Mar", "Apr", "May", "Jun", "Jul", "Aug", "Sep", "Oct", "Nov", "Dec">>

\* a variant that forgets to step the year back
RECURSIVE rollback_same_year(_, _)
rollback_same_year(month, year) ==
    IF month <= 0 THEN rollback_same_year(month + 12, year) ELSE <<month, year>>

\* while month <= 0: month += 12; year -= 1
RECURSIVE rollback(_, _)
rollback(month, year) ==
    IF month <= 0 THEN rollback(month + 12, year - 1) ELSE <<month, year>>

\* the entry appended for loop index i
MonthEntry(i) ==
    LET my == rollback(MonthOf(now) - i, YearOf(now))
        txs == to_list(find(transactions, MonthWindow(my[2], my[1])), AnalyticsCap)
    IN  [month |-> month_names[my[1]], year |-> my[2],
         income |-> sum_amount(txs, "income"),
         expense |-> sum_amount(txs, "expense")]

\* a call in the loop, about to query the month of loop index i
TrendCall(i, months_data, before) ==
    [op |-> "get_last_six_months", pc |-> "find", i |-> i,
     months_data |-> months_data, before |-> before]

\* one turn of `for i in range(5, -1, -1)`: the awaited find of the month
\* and the entry appended; after the turn of i = 0 the handler returns
get_last_six_months_find(p) ==
    LET i == IF calls[p] = Idle THEN 5 ELSE calls[p].i
        before == IF calls[p] = Idle THEN Before ELSE calls[p].before
        months_data == Append(IF calls[p] = Idle THEN <<>> ELSE calls[p].months_data,
                              MonthEntry(i))
    IN  /\ calls[p] = Idle \/ calls[p].op = "get_last_six_months"
        /\ IF i = 0
           THEN /\ calls' = [calls EXCEPT ![p] = Idle]
                /\ response' = Since(before, Return("get_last_six_months", None, months_data))
           ELSE /\ calls' = [calls EXCEPT ![p] = TrendCall(i - 1, months_data, before)]
                /\ UNCHANGED response
        /\ UNCHANGED <<categories, transactions, reminders, nextId, now>>

(***************************************************************************)
(* Reminders.                                                              *)
(***************************************************************************)
ReminderListCap == 100

MaxRem == 1

Reminder(id, f, t) ==
    [id |-> id, title |-> f.title, message |-> f.message, date |-> f.date,
     time |-> f.time, is_recurring |-> f.is_recurring,
     is_enabled |-> f.is_enabled, created_at |-> t]

\* a variant that seeds an empty registry, as get_categories seeds the catalog
get_reminders_seeding ==
    IF reminders = <<>>
    THEN LET rem_obj == [id |-> nextId, title |-> "default", message |-> Some(""),
                         date |-> now, time |-> "09:00", is_recurring |-> FALSE,
                         is_enabled |-> TRUE, created_at |-> now]
         IN  /\ reminders' = insert_one(reminders, rem_obj)
             /\ response' = Return("get_reminders", None, reminders')
             /\ UNCHANGED <<categories, transactions, nextId, now, calls>>
    ELSE /\ \E sorted \in sort(reminders, "date", 1) :
               response' = Return("get_reminders", None, to_list(sorted, ReminderListCap))
         /\ UNCHANGED <<categories, transactions, reminders, nextId, now, calls>>

get_reminders ==
    /\ \E sorted \in sort(reminders, "date", 1) :
          response' = Return("get_reminders", None, to_list(sorted, ReminderListCap))
    /\ UNCHANGED <<categories, transactions, reminders, nextId, now, calls>>

create_reminder(reminder) ==
    /\ nextId <= MaxId
    /\ Len(reminders) < MaxRem
    /\ LET rem_obj == Reminder(nextId, reminder, now) IN
       /\ reminders' = insert_one(reminders, rem_obj)
       /\ nextId' = nextId + 1
       /\ response' = Return("create_reminder", reminder, rem_obj)
    /\ UNCHANGED <<categories, transactions, now, calls>>

\* up to `result = await db.reminders.update_one(...)` and the 404 test
update_reminder_update_one(p, reminder_id, reminder) ==
    LET data == update_data(reminder)
        args == [id |-> reminder_id, patch |-> reminder]
        result == update_one(reminders, reminder_id, data)
    IN  /\ calls[p] = Idle
        /\ IF DOMAIN data = {}
           THEN /\ response' = HTTPException("update_reminder", args, 400, "No data to update")
                /\ UNCHANGED <<reminders, calls>>
           ELSE /\ reminders' = result.coll
                /\ IF result.modified_count = 0
                   THEN /\ response' = HTTPException("update_reminder", args, 404,
                                                     "Reminder not found")
                        /\ UNCHANGED calls
                   ELSE /\ calls' = [calls EXCEPT ![p] =
                               UpdateCall("update_reminder", reminder_id, reminder, Before)]
                        /\ UNCHANGED response
        /\ UNCHANGED <<categories, transactions, nextId, now>>

\* `updated = await db.reminders.find_one(...)`; return Reminder(**updated)
update_reminder_find_one(p) ==
    /\ calls[p] # Idle
    /\ calls[p].op = "update_reminder"
    /\ LET args == [id |-> calls[p].id, patch |-> calls[p].patch]
           updated == find_one(reminders, calls[p].id)
       IN  response' = Since(calls[p].before,
                             IF updated = None
                             THEN TypeError("update_reminder", args)
                             ELSE Return("update_reminder", args, updated[1]))
    /\ calls' = [calls EXCEPT ![p] = Idle]
    /\ UNCHANGED <<categories, transactions, reminders, nextId, now>>

delete_reminder(reminder_id) ==
    LET result == delete_one(reminders, reminder_id)
        args == [id |-> reminder_id]
    IN  /\ reminders' = result.coll
        /\ response' = IF result.deleted_count = 0
                       THEN HTTPException("delete_reminder", args, 404, "Reminder not found")
                       ELSE Return("delete_reminder", args, "Reminder deleted successfully")
        /\ UNCHANGED <<categories, transactions, nextId, now, calls>>

(***************************************************************************)
(* Export.  The CSV text is a sequence of pieces; the handler's f-string   *)
(* and "\n".join put them side by side.                                    *)
(***************************************************************************)
ExportCap == 10000

Quote == "\""

Comma == ","

\* a variant that rewrites the first occurrence only
replace_first(text, old, new) ==
    LET hits == {i \in 1..Len(text) : text[i] = old} IN
    IF hits = {} THEN text
    ELSE LET k == CHOOSE i \in hits : \A j \in hits : i <= j
         IN  SubSeq(text, 1, k - 1) \o new \o SubSeq(text, k + 1, Len(text))

\* str.replace(old, new) for a one-character old: every occurrence, left to right
replace(text, old, new) ==
    LET r[i \in 0..Len(text)] ==
            IF i = 0 THEN <<>>
            ELSE r[i - 1] \o (IF text[i] = old THEN new ELSE <<text[i]>>)
    IN  r[Len(text)]

\* "%02d" of a month or a day
pad2(n) == IF n < 10 THEN "0" \o ToString(n) ELSE ToString(n)

\* strftime with "%Y-%m-%d" (sep "-") and with "%Y%m%d" (sep "")
strftime(d, sep) ==
    ToString(YearOf(d)) \o sep \o pad2(MonthOf(d)) \o sep \o pad2(DayOf(d))

\* str() of a float whose value is integral, as an f-string prints the amount
format_float(a) == ToString(a) \o ".0"

\* "\n".join(rows)
join(rows) ==
    LET r[i \in 0..Len(rows)] ==
            IF i = 0 THEN <<>>
            ELSE IF i = 1 THEN rows[1]
            ELSE r[i - 1] \o <<"\n">> \o rows[i]
    IN  r[Len(rows)]

\* str.replace on None: the framework answers 500
AttributeError(op, args) ==
    [op |-> op, args |-> args, status |-> 500, body |-> "attribute error", before |-> Before]

\* the query dict export_csv builds
ExportQuery(start_date, end_date) ==
    [type |-> None,
     category_id |-> None,
     gte |-> IF TruthyDate(start_date) THEN Some(fromisoformat(start_date[1])) ELSE None,
     lte |-> IF TruthyDate(end_date) THEN Some(fromisoformat(end_date[1])) ELSE None,
     lt |-> None]

\* the body of the loop: one row of a transaction whose note is a text.
\* A stored date is always a datetime, so date_str comes from strftime.
csv_row(t) ==
    LET date_str == strftime(t.date, "-")
        note == replace(replace(get(t, "note", Some(<<>>))[1], Quote, <<Quote, Quote>>),
                        Comma, <<" ">>)
    IN  <<date_str, Comma, t.type, Comma, get(t, "category_name", "Other"), Comma,
          format_float(t.amount), Comma, Quote>> \o note \o <<Quote>>

csv_header == <<"Date,Type,Category,Amount,Notes">>

export_csv(start_date, end_date) ==
    LET args == [start_date |-> start_date, end_date |-> end_date] IN
    /\ IF \/ (TruthyDate(start_date) /\ start_date[1].kind = "malformed")
          \/ (TruthyDate(end_date) /\ end_date[1].kind = "malformed")
       THEN response' = ValueError("export_csv", args)
       ELSE \E page \in SortedPage(transactions, ExportQuery(start_date, end_date),
                                   ExportCap) :
               IF \E i \in 1..Len(page) : get(page[i], "note", Some(<<>>)) = None
               THEN response' = AttributeError("export_csv", args)
               ELSE LET csv_rows == <<csv_header>> \o [i \in 1..Len(page) |-> csv_row(page[i])]
                    IN  response' = Return("export_csv", args,
                            [csv_content |-> join(csv_rows),
                             filename |-> "expense_report_" \o strftime(now, "") \o ".csv"])
    /\ UNCHANGED <<categories, transactions, reminders, nextId, now, calls>>

(***************************************************************************)
(* Reset.                                                                  *)
(***************************************************************************)
\* a variant that forgets the reminders
reset_keep_reminders(coll) == coll

\* the third delete_many of reset_all_data
reset_reminders(coll) == delete_many(coll)

\* a variant that deletes in the opposite order
ResetOrderReversed == <<"reminders", "categories", "transactions">>

\* the collections in the order of the three awaits
ResetOrder == <<"transactions", "categories", "reminders">>

\* a call that has done k of its deletions; found is the ledger it met
ResetCall(k, found, before) ==
    [op |-> "reset_all_data", pc |-> "delete_many", k |-> k, found |-> found,
     before |-> before]

\* the next await of call p: delete_many on the next collection; after the
\* third the handler returns
reset_all_data_step(p) ==
    LET k == IF calls[p] = Idle THEN 1 ELSE calls[p].k + 1
        target == ResetOrder[k]
        found == IF calls[p] = Idle THEN transactions ELSE calls[p].found
        before == IF calls[p] = Idle THEN Before ELSE calls[p].before
    IN  /\ calls[p] = Idle \/ calls[p].op = "reset_all_data"
        /\ transactions' = IF target = "transactions" THEN delete_many(transactions)
                           ELSE transactions
        /\ categories' = IF target = "categories" THEN delete_many(categories)
                         ELSE categories
        /\ reminders' = IF target = "reminders" THEN reset_reminders(reminders)
                        ELSE reminders
        /\ IF k = Len(ResetOrder)
           THEN /\ calls' = [calls EXCEPT ![p] = Idle]
                /\ response' = Since(before, Return("reset_all_data", None,
                                                    "All data has been reset"))
           ELSE /\ calls' = [calls EXCEPT ![p] = ResetCall(k, found, before)]
                /\ UNCHANGED response
        /\ UNCHANGED <<nextId, now>>

(***************************************************************************)
(* Inputs of the CRUD specification (Spec), which serves one request at a  *)
(* time.                                                                   *)
(***************************************************************************)
IdInputs == 1..2

CategoryCreateInputs ==
    { [name |-> "Misc", color |-> c, icon |-> Some(DefaultIcon)] :
        c \in {None, Some(DefaultColor)} }

CategoryUpdateInputs ==
    [name : {None, Some("Food")}, color : {None, Some("#EF4444")},
     icon : {None, Some("icon-burger")}]

BaseYear == 2024

D1 == datetime(BaseYear, 3, 1, 0)

D2 == datetime(BaseYear, 4, 1, 0)

TransactionCreateInputs ==
    { [amount |-> 1, category_id |-> "c1", category_name |-> n, type |-> "expense",
       date |-> D1, note |-> Some(""), is_recurring |-> FALSE] :
        n \in {None, Some("")} }

NoTransactionUpdate ==
    [amount |-> None, category_id |-> None, category_name |-> None, type |-> None,
     date |-> None, note |-> None, is_recurring |-> None]

TransactionUpdateInputs ==
    { NoTransactionUpdate,
      [NoTransactionUpdate EXCEPT !.amount = Some(2),
                                  !.category_id = Some("c2"),
                                  !.category_name = Some("Rent"),
                                  !.type = Some("income")],
      [NoTransactionUpdate EXCEPT !.date = Some(D2), !.note = Some(Some("x")),
                                  !.is_recurring = Some(TRUE)] }

ReminderCreateInputs ==
    { [title |-> "pay", message |-> Some(""), date |-> D1, time |-> "09:00",
       is_recurring |-> FALSE, is_enabled |-> TRUE] }

NoReminderUpdate ==
    [title |-> None, message |-> None, date |-> None, time |-> None,
     is_recurring |-> None, is_enabled |-> None]

ReminderUpdateInputs ==
    { NoReminderUpdate,
      [NoReminderUpdate EXCEPT !.title = Some("rent"), !.message = Some(Some("m")),
                               !.is_enabled = Some(FALSE)],
      [NoReminderUpdate EXCEPT !.date = Some(D2), !.time = Some("10:30"),
                               !.is_recurring = Some(TRUE)] }

InitResponse ==
    [op |-> "none", args |-> None, status |-> 0, body |-> None,
     before |-> [categories |-> 0, transactions |-> 0, reminders |-> 0]]

Init ==
    /\ categories = <<>>
    /\ transactions = <<>>
    /\ reminders = <<>>
    /\ nextId = 1
    /\ now = datetime(BaseYear, 3, 15, 12)
    /\ response = InitResponse
    /\ calls = NoCalls

\* requests served one after the other: a handler starts when no other is
\* between two awaits, and runs to its answer before the next one starts
Caller == 1

\* a second request, in flight at the same time as the first
Updater == 2

Next ==
    \/ \E c \in CategoryCreateInputs : AllIdle /\ create_category(c)
    \/ \E id \in IdInputs, c \in CategoryUpdateInputs :
          OthersIdle(Caller) /\ update_category_update_one(Caller, id, c)
    \/ OthersIdle(Caller) /\ update_category_find_one(Caller)
    \/ \E id \in IdInputs : AllIdle /\ delete_category(id)
    \/ \E t \in TransactionCreateInputs : AllIdle /\ create_transaction(t)
    \/ \E id \in IdInputs, t \in TransactionUpdateInputs :
          OthersIdle(Caller) /\ update_transaction_update_one(Caller, id, t)
    \/ OthersIdle(Caller) /\ update_transaction_find_one(Caller)
    \/ \E id \in IdInputs : AllIdle /\ delete_transaction(id)
    \/ \E r \in ReminderCreateInputs : AllIdle /\ create_reminder(r)
    \/ \E id \in IdInputs, r \in ReminderUpdateInputs :
          OthersIdle(Caller) /\ update_reminder_update_one(Caller, id, r)
    \/ OthersIdle(Caller) /\ update_reminder_find_one(Caller)
    \/ \E id \in IdInputs : AllIdle /\ delete_reminder(id)

Spec == Init /\ [][Next]_vars

(***************************************************************************)
(* The catalog listed, filled and emptied, one request at a time           *)
(* (SpecSeed).                                                             *)
(***************************************************************************)
NextSeed ==
    \/ OthersIdle(Caller) /\ get_categories_find(Caller)
    \/ OthersIdle(Caller) /\ get_categories_insert(Caller)
    \/ OthersIdle(Caller) /\ get_categories_reread(Caller)
    \/ \E c \in CategoryCreateInputs : AllIdle /\ create_category(c)
    \/ \E id \in IdInputs : AllIdle /\ delete_category(id)

SpecSeed == Init /\ [][NextSeed]_vars

(***************************************************************************)
(* The store filled and reset, one request at a time (SpecResetAlone).     *)
(***************************************************************************)
NextResetAlone ==
    \/ \E c \in CategoryCreateInputs : AllIdle /\ create_category(c)
    \/ \E t \in TransactionCreateInputs : AllIdle /\ create_transaction(t)
    \/ \E r \in ReminderCreateInputs : AllIdle /\ create_reminder(r)
    \/ OthersIdle(Caller) /\ reset_all_data_step(Caller)

SpecResetAlone == Init /\ [][NextResetAlone]_vars

(***************************************************************************)
(* The monthly report over a ledger filled by create (SpecReport).         *)
(***************************************************************************)
R1 == datetime(BaseYear, 12, 1, 0)

R2 == datetime(BaseYear, 12, 31, 23)

R3 == datetime(BaseYear + 1, 1, 1, 0)

TxInput(amount, type, category_id, category_name, date) ==
    [amount |-> amount, category_id |-> category_id, category_name |-> category_name,
     type |-> type, date |-> date, note |-> Some(""), is_recurring |-> FALSE]

TransactionTypes == {"expense", "income"}

\* an income whose percentages fall halfway between two tenths
TieIncome == 2000

\* amounts of either sign on the first instant of December, an income of
\* TieIncome, names that are null, empty or set, and dates at the end of
\* December and on the first instant of the next January
ReportTxInputs ==
    {TxInput(a, t, "c1", Some("Food"), R1) : a \in {-1, 1, MaxAmount}, t \in TransactionTypes}
    \cup {TxInput(TieIncome, "income", "c1", Some("Food"), R1)}
    \cup {TxInput(1, "expense", "c1", n, R1) : n \in {None, Some(""), Some("Rent")}}
    \cup {TxInput(1, "income", "c1", Some("Food"), R2),
          TxInput(1, "expense", "c1", Some("Food"), R3)}

ReportYears == BaseYear..(BaseYear + NumYears)

ReportMonths == 1..13

\* the months of the years of the ledger, and months at the two ends of
\* the years datetime has
ReportRequests ==
    (ReportYears \X ReportMonths)
    \cup {<<MINYEAR - 1, 1>>, <<MAXYEAR, 11>>, <<MAXYEAR, 12>>, <<MAXYEAR + 1, 1>>}

NextReport ==
    \/ \E t \in ReportTxInputs : create_transaction(t)
    \/ \E r \in ReportRequests : get_monthly_analytics(r[1], r[2])

SpecReport == Init /\ [][NextReport]_vars

(***************************************************************************)
(* The six-month trend at every month of the clock (SpecSixMonths).        *)
(***************************************************************************)
Clock == {datetime(y, m, 15, 12) : y \in BaseYear..(BaseYear + NumYears - 1), m \in 1..12}

InitClock ==
    /\ categories = <<>>
    /\ transactions = <<>>
    /\ reminders = <<>>
    /\ nextId = 1
    /\ now \in Clock
    /\ response = InitResponse
    /\ calls = NoCalls

SixTxInputs ==
    {TxInput(a, t, "c1", Some("Food"), d) :
        a \in {1, 2}, t \in TransactionTypes,
        d \in {datetime(BaseYear - 1, 12, 15, 0), datetime(BaseYear, 1, 1, 0),
               datetime(BaseYear, 3, 15, 0)}}

NextSixMonths ==
    \/ \E t \in SixTxInputs : create_transaction(t)
    \/ get_last_six_months_find(Caller)

SpecSixMonths == InitClock /\ [][NextSixMonths]_vars

(***************************************************************************)
(* Filtered listing of the ledger (SpecList).                              *)
(***************************************************************************)
\* three dates around the bound the filters use, and on the bound itself
\* one transaction of each type and of each category
ListTxInputs ==
    {TxInput(1, "expense", "c1", Some("Food"), d) : d \in {D1, D2, R1}}
    \cup {TxInput(1, "income", "c1", Some("Food"), D2),
          TxInput(1, "expense", "c2", Some("Food"), D2)}

TypeFilters == {None, Some("expense"), Some("income")}

CategoryFilters == {None, Some(""), Some("c1")}

StartFilters == {None, Some(EmptyStr), Some(IsoStr(BaseYear, 4, 1, 0)), Some(Malformed)}

EndFilters == {None, Some(EmptyStr), Some(IsoStr(BaseYear, 4, 1, 0))}

NextList ==
    \/ \E t \in ListTxInputs : create_transaction(t)
    \/ \E ty \in TypeFilters, c \in CategoryFilters, sd \in StartFilters, ed \in EndFilters :
          get_transactions(ty, c, sd, ed)

SpecList == Init /\ [][NextList]_vars

(***************************************************************************)
(* The catalog next to a ledger whose transactions reference its           *)
(* categories (SpecCatalog): the caller copies the id and the name of an   *)
(* existing category into the transaction it creates.                      *)
(***************************************************************************)
ReferencingTxInputs ==
    {TxInput(1, "expense", categories[i].id, Some(categories[i].name), D1) :
        i \in {j \in 1..Len(categories) : categories[j].id \in IdInputs}}

\* the list runs alone, from its find to its answer; an update in flight
\* interleaves with the one-step operations
NextCatalog ==
    \/ OthersIdle(Caller) /\ get_categories_find(Caller)
    \/ OthersIdle(Caller) /\ get_categories_insert(Caller)
    \/ OthersIdle(Caller) /\ get_categories_reread(Caller)
    \/ \E c \in CategoryCreateInputs : calls[Caller] = Idle /\ create_category(c)
    \/ \E id \in IdInputs, c \in CategoryUpdateInputs :
          calls[Caller] = Idle /\ update_category_update_one(Updater, id, c)
    \/ calls[Caller] = Idle /\ update_category_find_one(Updater)
    \/ \E id \in IdInputs : calls[Caller] = Idle /\ delete_category(id)
    \/ \E t \in ReferencingTxInputs : calls[Caller] = Idle /\ create_transaction(t)

SpecCatalog == Init /\ [][NextCatalog]_vars

(***************************************************************************)
(* Two first reads of the catalog that race (SpecSeedRace).  A seeding     *)
(* get_categories awaits the store ten times: the first find, one          *)
(* insert_one for each default, and the second find.                       *)
(***************************************************************************)
\* the two first reads that race
SeedCallers == {1, 2}

NextSeedRace ==
    \/ \E p \in SeedCallers : get_categories_find(p)
    \/ \E p \in SeedCallers : get_categories_insert(p)
    \/ \E p \in SeedCallers : get_categories_reread(p)

SpecSeedRace == Init /\ [][NextSeedRace]_vars

(***************************************************************************)
(* The export of notes (SpecExport).  Notes are the texts of commas and    *)
(* quotes up to MaxNoteLen and the note  He said "hi", now.                *)
(***************************************************************************)
MaxNoteLen == 2

NoteChars == {Comma, Quote}

RECURSIVE Texts(_)
Texts(n) ==
    IF n = 0 THEN {<<>>}
    ELSE Texts(n - 1) \cup {Append(t, c) : t \in {u \in Texts(n - 1) : Len(u) = n - 1},
                                           c \in NoteChars}

ExampleNote ==
    <<"H", "e", " ", "s", "a", "i", "d", " ", Quote, "h", "i", Quote, Comma, " ",
      "n", "o", "w">>

ExportTxInput(note, category_name, date) ==
    [amount |-> 1, category_id |-> "c1", category_name |-> category_name,
     type |-> "expense", date |-> date, note |-> note, is_recurring |-> FALSE]

\* every note on one day, and one transaction on a later day
ExportTxInputs ==
    {ExportTxInput(Some(n), Some("Food"), D1) : n \in Texts(MaxNoteLen) \cup {ExampleNote}}
    \cup {ExportTxInput(Some(<<>>), Some("Food"), D2)}

ExportStartFilters == {None, Some(EmptyStr), Some(IsoStr(BaseYear, 4, 1, 0))}

ExportEndFilters == {None, Some(IsoStr(BaseYear, 3, 1, 0)), Some(Malformed)}

NextExport ==
    \/ \E t \in ExportTxInputs : create_transaction(t)
    \/ \E sd \in ExportStartFilters, ed \in ExportEndFilters : export_csv(sd, ed)

SpecExport == Init /\ [][NextExport]_vars

(***************************************************************************)
(* The export over a ledger kept by create, update and delete              *)
(* (SpecExportLedger): transactions with and without a category name, with *)
(* an empty note and with no note (null).                                  *)
(***************************************************************************)
LedgerTxInputs ==
    {ExportTxInput(None, Some("Food"), D1)}
    \cup {ExportTxInput(Some(<<>>), cn, d) : cn \in {Some(""), Some("Food")}, d \in {D1, D2}}

LedgerUpdateInputs ==
    { [NoTransactionUpdate EXCEPT !.note = Some(Some(<<Comma, Quote>>))],
      [NoTransactionUpdate EXCEPT !.date = Some(D2)] }

NextExportLedger ==
    \/ \E t \in LedgerTxInputs : create_transaction(t)
    \/ \E p \in Procs, id \in IdInputs, t \in LedgerUpdateInputs :
          update_transaction_update_one(p, id, t)
    \/ \E p \in Procs : update_transaction_find_one(p)
    \/ \E id \in IdInputs : delete_transaction(id)
    \/ \E sd \in ExportStartFilters, ed \in ExportEndFilters : export_csv(sd, ed)

SpecExportLedger == Init /\ [][NextExportLedger]_vars

(***************************************************************************)
(* A reset that other requests overtake (SpecReset): creates and reminder  *)
(* lists run between its three deletions.                                  *)
(***************************************************************************)
NextReset ==
    \/ \E c \in CategoryCreateInputs : create_category(c)
    \/ \E t \in TransactionCreateInputs : create_transaction(t)
    \/ \E r \in ReminderCreateInputs : create_reminder(r)
    \/ get_reminders
    \/ \E p \in Procs : reset_all_data_step(p)

SpecReset == Init /\ [][NextReset]_vars

(***************************************************************************)
(* Updates of a category that other requests overtake (SpecUpdateRace):    *)
(* updates and deletes run between update_one and find_one.                *)
(***************************************************************************)
NoCategoryUpdate == [name |-> None, color |-> None, icon |-> None]

RaceUpdateInputs ==
    { NoCategoryUpdate,
      [NoCategoryUpdate EXCEPT !.name = Some("Food")],
      [NoCategoryUpdate EXCEPT !.name = Some("Rent")],
      [NoCategoryUpdate EXCEPT !.color = Some("#EF4444")] }

NextUpdateRace ==
    \/ \E c \in CategoryCreateInputs : create_category(c)
    \/ \E p \in Procs, id \in IdInputs, c \in RaceUpdateInputs :
          update_category_update_one(p, id, c)
    \/ \E p \in Procs : update_category_find_one(p)
    \/ \E id \in IdInputs : delete_category(id)

SpecUpdateRace == Init /\ [][NextUpdateRace]_vars

(***************************************************************************)
(* The reads beside the writes that fill the store (SpecReads): listings,  *)
(* reports and the export, with arguments that make them fail as well.     *)
(***************************************************************************)
ReadMonths == {3, 13}

ReadYears == {BaseYear, MAXYEAR + 1}

ReadStartFilters == {None, Some(Malformed)}

NextReads ==
    \/ \E c \in CategoryCreateInputs : create_category(c)
    \/ \E t \in LedgerTxInputs : create_transaction(t)
    \/ \E r \in ReminderCreateInputs : create_reminder(r)
    \/ \E sd \in ReadStartFilters : get_transactions(None, None, sd, None)
    \/ get_reminders
    \/ \E y \in ReadYears, m \in ReadMonths : get_monthly_analytics(y, m)
    \/ get_last_six_months_find(Caller)
    \/ \E sd \in ReadStartFilters : export_csv(sd, None)

SpecReads == Init /\ [][NextReads]_vars

(***************************************************************************)
(* Properties of update and delete (Spec), of seeding (SpecSeed) and of    *)
(* reset (SpecResetAlone), with one request served at a time.              *)
(***************************************************************************)
UpdateOps == {"update_category", "update_transaction", "update_reminder"}

DeleteOps == {"delete_category", "delete_transaction", "delete_reminder"}

\* the collection a handler works on, before (old) and after (new) its step
Target(op, old, new) ==
    IF op \in {"update_category", "delete_category"} THEN <<old[1], new[1]>>
    ELSE IF op \in {"update_transaction", "delete_transaction"} THEN <<old[2], new[2]>>
    ELSE <<old[3], new[3]>>

\* the two collections a handler does not work on are the same before and after
OthersSame(op, old, new) ==
    /\ op \notin {"update_category", "delete_category"} => old[1] = new[1]
    /\ op \notin {"update_transaction", "delete_transaction"} => old[2] = new[2]
    /\ op \notin {"update_reminder", "delete_reminder"} => old[3] = new[3]

NonNullFields(patch) == {k \in DOMAIN patch : patch[k] # None}

\* this step answers a request for one of ops: a handler of one await ran,
\* or a handler of several awaits returned
Answers(ops) ==
    /\ response'.op \in ops
    /\ \/ calls' = calls
       \/ \E p \in Procs : calls[p] # Idle /\ calls'[p] = Idle

\* request p passes its update_one in this step and goes on to find_one
Writes(p) == calls[p] = Idle /\ calls'[p] # Idle /\ calls'[p].op \in UpdateOps

\* request p returns from its find_one in this step
Rereads(p) == calls[p] # Idle /\ calls[p].op \in UpdateOps /\ calls'[p] = Idle

\* the store step of update(id, patch) with a non-empty patch: an existing
\* record is merged and the handler goes on (written), a missing one changes
\* nothing and the handler stops
UpdateMerges(op, id, patch, written, old, new) ==
    LET c == Target(op, old, new)[1]
        d == Target(op, old, new)[2]
        hits == {i \in 1..Len(c) : c[i].id = id}
    IN  IF hits = {}
        THEN ~written /\ old = new
        ELSE /\ written
             /\ Len(d) = Len(c)
             /\ OthersSame(op, old, new)
             /\ \A i \in 1..Len(c) :
                   IF i \in hits
                   THEN \A k \in DOMAIN c[i] :
                           d[i][k] = IF k \in NonNullFields(patch)
                                     THEN patch[k][1] ELSE c[i][k]
                   ELSE d[i] = c[i]

\* C1: update(id, patch) with a non-empty patch succeeds on every existing
\* record, also when the patch repeats the stored values, and replaces
\* exactly the patched fields; it answers NotFound only for a missing id,
\* and then changes nothing.
C1_UpdateMergesOrNotFound ==
    [][LET old == <<categories, transactions, reminders>>
           new == <<categories', transactions', reminders'>>
       IN  /\ (/\ Answers(UpdateOps)
               /\ calls' = calls
               /\ NonNullFields(response'.args.patch) # {})
                 => /\ response'.status = 404
                    /\ UpdateMerges(response'.op, response'.args.id,
                                    response'.args.patch, FALSE, old, new)
           /\ \A p \in Procs :
                 /\ Writes(p) => UpdateMerges(calls'[p].op, calls'[p].id,
                                              calls'[p].patch, TRUE, old, new)
                 /\ Rereads(p) => /\ response'.status = 200
                                  /\ response'.body.id = calls[p].id
                                  /\ old = new]_vars

\* C2: list() on the categories seeds the eight defaults exactly when it
\* finds the catalog empty and inserts nothing otherwise; a second list()
\* right after a seeding one returns the same eight defaults and leaves
\* eight.
C2_SeedsOnlyWhenEmpty ==
    [][/\ \A p \in Procs :
             (calls'[p] # Idle /\ calls'[p].op = "get_categories")
                => calls'[p].before.categories = 0
       /\ Answers({"get_categories"}) =>
            /\ response'.status = 200
            /\ response'.body = categories'
            /\ IF response'.before.categories = 0
               THEN /\ Len(categories') = 8
                    /\ \A i \in 1..8 :
                          /\ categories'[i].name = DEFAULT_CATEGORIES[i].name
                          /\ categories'[i].color = DEFAULT_CATEGORIES[i].color
                          /\ categories'[i].icon = DEFAULT_CATEGORIES[i].icon
               ELSE /\ categories' = categories
                    /\ Len(categories') = response'.before.categories
            /\ (response.op = "get_categories" /\ response.before.categories = 0)
                  => /\ response'.body = response.body
                     /\ Len(categories') = 8
                     /\ [i \in 1..8 |-> categories'[i].name] =
                           <<"Food", "Rent", "Transport", "Shopping", "Bills",
                             "Entertainment", "Salary", "Investments">>]_vars

\* a second list() has just answered a catalog that the first one seeded
C2_Witness ==
    /\ response.op = "get_categories"
    /\ response.before.categories = 8
    /\ categories = SeedDocs(1, now)
    /\ response.body = categories

\* C3: update with a patch whose fields are all null answers 400 whether or
\* not the record exists, and changes nothing.
C3_EmptyPatchIsInvalidInput ==
    [][(Answers(UpdateOps) /\ NonNullFields(response'.args.patch) = {})
        => /\ response'.status = 400
           /\ calls' = calls
           /\ <<categories', transactions', reminders'>> =
                 <<categories, transactions, reminders>>]_vars

\* an all-null update of a record that exists has been answered
C3_Witness ==
    /\ response.op \in UpdateOps
    /\ NonNullFields(response.args.patch) = {}
    /\ response.status = 400
    /\ \/ response.op = "update_category"
          /\ \E i \in 1..Len(categories) : categories[i].id = response.args.id
       \/ response.op = "update_transaction"
          /\ \E i \in 1..Len(transactions) : transactions[i].id = response.args.id
       \/ response.op = "update_reminder"
          /\ \E i \in 1..Len(reminders) : reminders[i].id = response.args.id

\* C9: delete(id) answers 404 exactly when no record has the id, and then
\* changes nothing; otherwise it removes that record and no other and leaves
\* the other two collections alone.
C9_DeleteRemovesOneOrNotFound ==
    [][Answers(DeleteOps) =>
        LET old == <<categories, transactions, reminders>>
            new == <<categories', transactions', reminders'>>
            c == Target(response'.op, old, new)[1]
            d == Target(response'.op, old, new)[2]
            hits == {i \in 1..Len(c) : c[i].id = response'.args.id}
        IN  /\ (response'.status = 404) <=> (hits = {})
            /\ hits = {} => old = new
            /\ hits # {} =>
                  /\ response'.status = 200
                  /\ OthersSame(response'.op, old, new)
                  /\ Len(d) = Len(c) - 1
                  /\ \E i \in hits :
                        /\ \A j \in 1..(i - 1) : d[j] = c[j]
                        /\ \A j \in i..Len(d) : d[j] = c[j + 1]
                  /\ \A j \in 1..Len(d) : d[j].id # response'.args.id]_vars

\* a delete has removed one transaction and left another one in place
C9_Witness ==
    /\ response.op = "delete_transaction"
    /\ response.status = 200
    /\ response.before.transactions = 2
    /\ Len(transactions) = 1

\* C10: when resetAll has run to its answer with no other request served
\* in between, the three collections are empty; it succeeds whatever the
\* store holds.
C10_ResetEmptiesEverything ==
    [][(\E p \in Procs : /\ calls[p] # Idle
                          /\ calls[p].op = "reset_all_data"
                          /\ calls'[p] = Idle) =>
        /\ response'.op = "reset_all_data"
        /\ response'.status = 200
        /\ transactions' = <<>>
        /\ categories' = <<>>
        /\ reminders' = <<>>]_vars

\* a reset has run on a store that held records in all three collections
C10_Witness ==
    /\ response.op = "reset_all_data"
    /\ response.before.categories > 0
    /\ response.before.transactions > 0
    /\ response.before.reminders > 0
    /\ categories = <<>> /\ transactions = <<>> /\ reminders = <<>>

(***************************************************************************)
(* Properties of the monthly report (specification SpecReport).  A read    *)
(* leaves the store as it found it, so the report in response is compared  *)
(* with the ledger of the same state.                                      *)
(***************************************************************************)
Abs(x) == IF x < 0 THEN -x ELSE x

RECURSIVE SumAt(_, _)
SumAt(txs, I) ==
    IF I = {} THEN 0
    ELSE LET i == CHOOSE x \in I : TRUE IN txs[i].amount + SumAt(txs, I \ {i})

\* the stored transactions dated in [first of month, first of next month)
InWindow(year, month) ==
    LET first == datetime(year, month, 1, 0)
        next == IF month = 12 THEN datetime(year + 1, 1, 1, 0)
                              ELSE datetime(year, month + 1, 1, 0)
    IN  {i \in 1..Len(transactions) :
            transactions[i].date >= first /\ transactions[i].date < next}

ReportAnswered == response.op = "get_monthly_analytics" /\ response.status = 200

\* the breakdown key the claim gives a transaction
BreakdownKey(t) == IF t.category_name = "" THEN "Other" ELSE t.category_name

\* C4: category_breakdown has exactly one entry per category_name of the
\* expense transactions in the window, holding the sum of their amounts,
\* and an expense with an empty category_name counts under "Other": the
\* empty string is never a key.
C4_BreakdownDefaultsToOther ==
    ReportAnswered =>
        LET E == {i \in InWindow(response.args.year, response.args.month) :
                    transactions[i].type = "expense"}
            bd == response.body.category_breakdown
        IN  /\ DOMAIN bd = {BreakdownKey(transactions[i]) : i \in E}
            /\ \A k \in DOMAIN bd :
                  bd[k] = SumAt(transactions, {i \in E : BreakdownKey(transactions[i]) = k})
            /\ "" \notin DOMAIN bd

\* v tenths of a percent is net / income * 100 rounded to one decimal place
NearestTenth(v, net, income) == 2 * Abs(v * income - 1000 * net) <= Abs(income)

\* C5 as stated: savings_percentage is 0 when total_income is 0 and
\* otherwise net_balance / total_income * 100 rounded to one decimal place,
\* with net_balance = total_income - total_expense.
C5_SavingsZeroOnlyAtZeroIncome ==
    ReportAnswered =>
        LET b == response.body IN
        /\ b.net_balance = b.total_income - b.total_expense
        /\ IF b.total_income = 0
           THEN b.savings_percentage = 0
           ELSE NearestTenth(b.savings_percentage, b.net_balance, b.total_income)

\* C5 amended: savings_percentage is 0 when total_income is 0 or negative,
\* and otherwise net_balance / total_income * 100 rounded to one decimal
\* place, with net_balance = total_income - total_expense.
C5_SavingsZeroUnlessPositiveIncome ==
    ReportAnswered =>
        LET b == response.body IN
        /\ b.net_balance = b.total_income - b.total_expense
        /\ IF b.total_income <= 0
           THEN b.savings_percentage = 0
           ELSE NearestTenth(b.savings_percentage, b.net_balance, b.total_income)

\* a report with a positive income whose percentage needed rounding
C5_Witness ==
    /\ ReportAnswered
    /\ response.body.total_income > 0
    /\ response.body.total_expense > 0
    /\ (1000 * response.body.net_balance) % response.body.total_income # 0

\* a report whose exact percentage lies halfway between two tenths and is
\* not a float: the tenth returned is the one nearest to the float computed
C5_TieWitness ==
    /\ ReportAnswered
    /\ response.body.total_income > 0
    /\ (2000 * response.body.net_balance) % response.body.total_income = 0
    /\ ((2000 * response.body.net_balance) \div response.body.total_income) % 2 = 1
    /\ ((2000 * response.body.net_balance) \div response.body.total_income) % 125 # 0
    /\ response.body.savings_percentage % 2 = 1

\* the report of (y, m) is over the stored transactions with
\* firstOfMonth <= date < firstOfNextMonth, which are the transactions of
\* that calendar month
WindowReported(y, m) ==
    LET W == InWindow(y, m)
        b == response.body
    IN  /\ response.status = 200
        /\ W = {i \in 1..Len(transactions) :
                  YearOf(transactions[i].date) = y /\ MonthOf(transactions[i].date) = m}
        /\ b.transaction_count = Cardinality(W)
        /\ b.total_income = SumAt(transactions, {i \in W : transactions[i].type = "income"})
        /\ b.total_expense = SumAt(transactions, {i \in W : transactions[i].type = "expense"})

\* C6 as stated: for every year and every month in 1..12 the report counts
\* and sums exactly the stored transactions with firstOfMonth <= date <
\* firstOfNextMonth (January of year + 1 after December); transaction_count
\* is their number, income and expense together.
C6_HalfOpenMonthWindow ==
    (response.op = "get_monthly_analytics" /\ response.args.month \in 1..12) =>
        WindowReported(response.args.year, response.args.month)

\* C6 amended: the same for every year in 1..9999 and every month in 1..12
\* except December of 9999; for a year outside 1..9999, and for December of
\* 9999, whose window would end in the year 10000, the request fails and
\* no report is returned.
C6_HalfOpenWindowOfDatableMonths ==
    (response.op = "get_monthly_analytics" /\ response.args.month \in 1..12) =>
        LET y == response.args.year
            m == response.args.month
        IN  IF y \in 1..9999 /\ ~(y = 9999 /\ m = 12)
            THEN WindowReported(y, m)
            ELSE response.status = 500

\* a December report over a ledger holding one transaction on the first
\* instant of December and one on the first instant of the next January
C6_Witness ==
    /\ ReportAnswered
    /\ response.args.month = 12
    /\ \E i, j \in 1..Len(transactions) :
          /\ transactions[i].date = datetime(response.args.year, 12, 1, 0)
          /\ transactions[j].date = datetime(response.args.year + 1, 1, 1, 0)
    /\ response.body.transaction_count = 1

(***************************************************************************)
(* Property of the six-month trend (specification SpecSixMonths).          *)
(***************************************************************************)
Abbreviations ==
    <<"Jan", "Feb", "Mar", "Apr", "May", "Jun", "Jul", "Aug", "Sep", "Oct", "Nov", "Dec">>

\* C7: lastSixMonths returns six entries, oldest first; entry k (k = 0..5)
\* is the calendar month 5 - k months before the current one, the year
\* stepping back when the count crosses January, labelled by the
\* three-letter abbreviation of a month in 1..12.
C7_SixConsecutiveMonths ==
    (response.op = "get_last_six_months") =>
        /\ response.status = 200
        /\ Len(response.body) = 6
        /\ \A k \in 0..5 :
              LET index == YearOf(now) * 12 + (MonthOf(now) - 1) - (5 - k)
                  month == (index % 12) + 1
              IN  /\ month \in 1..12
                  /\ response.body[k + 1].year = index \div 12
                  /\ response.body[k + 1].month = Abbreviations[month]

\* the trend asked in March of BaseYear (2024)
C7_Witness ==
    /\ response.op = "get_last_six_months"
    /\ MonthOf(now) = 3 /\ YearOf(now) = BaseYear
    /\ [k \in 1..6 |-> <<response.body[k].month, response.body[k].year>>] =
          << <<"Oct", BaseYear - 1>>, <<"Nov", BaseYear - 1>>, <<"Dec", BaseYear - 1>>,
             <<"Jan", BaseYear>>, <<"Feb", BaseYear>>, <<"Mar", BaseYear>> >>

(***************************************************************************)
(* Properties of the filtered listing (specification SpecList).            *)
(***************************************************************************)
\* the instant an ISO date text names
InstantOf(s) == datetime(s.year, s.month, s.day, s.hour)

\* a date bound is in force when a non-empty text is given
DateGiven(o) == o # None /\ o[1].kind # "empty"

\* the stored transactions that satisfy the filter a; the category filter is
\* in force when categoryGiven says so
Satisfying(a, categoryGiven) ==
    {i \in 1..Len(transactions) :
        /\ a.type # None => transactions[i].type = a.type[1]
        /\ categoryGiven => transactions[i].category_id = a.category_id[1]
        /\ DateGiven(a.start_date) => transactions[i].date >= InstantOf(a.start_date[1])
        /\ DateGiven(a.end_date) => transactions[i].date <= InstantOf(a.end_date[1])}

\* page holds, latest first, the Min(length, |M|) transactions of M with the
\* latest dates
LatestOf(page, M, length) ==
    /\ Len(page) = Min(length, Cardinality(M))
    /\ \A i \in 1..Len(page) : \E j \in M : page[i] = transactions[j]
    /\ \A i, j \in 1..Len(page) : i # j => page[i].id # page[j].id
    /\ \A i \in 1..Len(page) : \A j \in (i + 1)..Len(page) : page[i].date >= page[j].date
    /\ \A j \in M : \A i \in 1..Len(page) :
          (\A k \in 1..Len(page) : page[k].id # transactions[j].id)
             => transactions[j].date <= page[i].date

ListAnswered == response.op = "get_transactions" /\ response.status = 200

\* C8 as stated: the listing returns exactly the transactions that satisfy
\* every supplied filter field, a supplied category_id meaning equality,
\* latest first, at most 1000 of them.
C8_ListMatchesEverySuppliedField ==
    ListAnswered =>
        LatestOf(response.body,
                 Satisfying(response.args, response.args.category_id # None),
                 1000)

\* C8 amended: a filter field that is omitted or given as the empty string
\* constrains nothing; the listing returns exactly the transactions that
\* satisfy every other supplied field (type equal, category_id equal,
\* date >= start_date, date <= end_date), latest first, and when more than
\* the cap match, the cap's number of them with the latest dates.
C8_ListMatchesEveryNonEmptyField ==
    (response.op = "get_transactions") =>
        LET a == response.args
            given == a.category_id # None /\ a.category_id[1] # ""
            M == Satisfying(a, given)
            bad == \/ (DateGiven(a.start_date) /\ a.start_date[1].kind = "malformed")
                   \/ (DateGiven(a.end_date) /\ a.end_date[1].kind = "malformed")
        IN  IF bad THEN response.status = 500
            ELSE /\ response.status = 200
                 /\ LatestOf(response.body, M, 1000)
                 /\ \A n \in 0..Len(transactions) :
                       \A page \in SortedPage(transactions,
                                              TransactionQuery(a.type, a.category_id,
                                                               a.start_date, a.end_date), n) :
                          LatestOf(page, M, n)

\* a listing filtered by type and by both date bounds that keeps one of two
\* stored transactions
C8_Witness ==
    /\ ListAnswered
    /\ response.args.type # None
    /\ DateGiven(response.args.start_date)
    /\ DateGiven(response.args.end_date)
    /\ Len(transactions) = 2
    /\ Len(response.body) = 1

(***************************************************************************)
(* Property of the catalog beside the ledger (specification SpecCatalog).  *)
(***************************************************************************)
CatalogOps == {"get_categories", "create_category", "update_category", "delete_category"}

\* C11: no step of an operation of the category catalog (list with its
\* seeding, create, update, delete) changes a transaction: after a rename or a
\* delete every transaction that references the category is still there
\* with the category_id and the category_name it had.
C11_CatalogLeavesLedgerAlone ==
    [][(calls' # calls \/ response'.op \in CatalogOps) =>
        /\ Len(transactions') = Len(transactions)
        /\ \A i \in 1..Len(transactions) :
              /\ transactions'[i].id = transactions[i].id
              /\ transactions'[i].category_id = transactions[i].category_id
              /\ transactions'[i].category_name = transactions[i].category_name
              /\ transactions'[i] = transactions[i]]_vars

\* a category has been deleted while a transaction still carries its id
C11_Witness ==
    /\ response.op = "delete_category"
    /\ response.status = 200
    /\ \E i \in 1..Len(transactions) : transactions[i].category_id = response.args.id
    /\ \A j \in 1..Len(categories) : categories[j].id # response.args.id

\* a category has been renamed and a transaction keeps the name it copied
C11_RenameWitness ==
    /\ response.op = "update_category"
    /\ response.status = 200
    /\ response.args.patch.name # None
    /\ \E i \in 1..Len(transactions) :
          /\ transactions[i].category_id = response.args.id
          /\ transactions[i].category_name # response.body.name

(***************************************************************************)
(* Properties of concurrent first reads of the catalog (SpecSeedRace).     *)
(***************************************************************************)
DefaultNames == {DEFAULT_CATEGORIES[n].name : n \in 1..Len(DEFAULT_CATEGORIES)}

NamesIn(coll) == {coll[i].name : i \in 1..Len(coll)}

Occurrences(coll, name) == Cardinality({i \in 1..Len(coll) : coll[i].name = name})

\* C12: list() calls racing on an empty catalog each seed it: every
\* category built is stored, and once no call is inside its seeding loop
\* the catalog holds each default name once for each call that found it
\* empty, so sixteen categories with each default name twice after two.
C12_EverySeederSeeds ==
    /\ Len(categories) = nextId - 1
    /\ AllIdle =>
          /\ Len(categories) % Len(DEFAULT_CATEGORIES) = 0
          /\ \A name \in DefaultNames :
                Occurrences(categories, name) = (nextId - 1) \div Len(DEFAULT_CATEGORIES)

\* two calls both found the catalog empty and both have answered
C12_Witness ==
    /\ AllIdle
    /\ response.op = "get_categories"
    /\ response.before.categories = 0
    /\ Len(response.body) = 16
    /\ Len(categories) = 16
    /\ \A name \in DefaultNames : Occurrences(categories, name) = 2

\* C17: every list() call answered, in any interleaving of list() calls
\* that start on an empty catalog, returns all eight default names.
C17_EveryListHasAllDefaults ==
    (response.op = "get_categories") => DefaultNames \subseteq NamesIn(response.body)

(***************************************************************************)
(* Properties of the export (specifications SpecExport, SpecExportLedger). *)
(* A read leaves the ledger as it found it, so the text in response is     *)
(* compared with the ledger of the same state.                             *)
(***************************************************************************)
\* the rows of a CSV text: its pieces between the line breaks
Lines(text) ==
    LET n == Len(text)
        breaks == {i \in 1..n : text[i] = "\n"}
        Break(k) == CHOOSE i \in breaks : Cardinality({j \in breaks : j <= i}) = k
        count == Cardinality(breaks) + 1
    IN  [k \in 1..count |->
            SubSeq(text,
                   IF k = 1 THEN 1 ELSE Break(k - 1) + 1,
                   IF k = count THEN n ELSE Break(k) - 1)]

ExportAnswered == response.op = "export_csv" /\ response.status = 200

DataRows == Tail(Lines(response.body.csv_content))

\* the transactions an export with these arguments has to render, in the
\* orders a descending date allows
ExportPages ==
    LET lo == response.args.start_date
        hi == response.args.end_date
        wanted == SelectSeq(transactions, LAMBDA t :
                      /\ DateGiven(lo) => t.date >= InstantOf(lo[1])
                      /\ DateGiven(hi) => t.date <= InstantOf(hi[1]))
        n == Len(wanted)
    IN  {page \in {[i \in 1..n |-> wanted[f[i]]] : f \in Permutations(1..n)} :
            \A i \in 1..n : \A j \in (i + 1)..n : page[i].date >= page[j].date}

CategoryField(row) == row[5]

NoteField(row) == SubSeq(row, 9, Len(row))

\* one pass over the note: a double quote becomes two, a comma one space
Escaped(text) ==
    LET r[i \in 0..Len(text)] ==
            IF i = 0 THEN <<>>
            ELSE IF text[i] = Quote THEN r[i - 1] \o <<Quote, Quote>>
            ELSE IF text[i] = Comma THEN Append(r[i - 1], " ")
            ELSE Append(r[i - 1], text[i])
    IN  r[Len(text)]

\* the field starts and ends with a double quote, and between the two the
\* double quotes come in runs of even length
WellQuoted(field) ==
    LET n == Len(field)
        inner == SubSeq(field, 2, n - 1)
        RunEndingAt(i) ==
            Cardinality({j \in 1..i : \A k \in j..i : inner[k] = Quote})
    IN  /\ n >= 2
        /\ field[1] = Quote
        /\ field[n] = Quote
        /\ \A i \in 1..Len(inner) :
              (inner[i] = Quote /\ (i = Len(inner) \/ inner[i + 1] # Quote))
                  => RunEndingAt(i) % 2 = 0

\* C13: in every export that is answered, the note field of each row is
\* the transaction's note with every double quote doubled and every comma
\* replaced by one space, inside one pair of double quotes; it holds no
\* comma and its inner double quotes occur doubled.
C13_NoteFieldEscaped ==
    ExportAnswered =>
        \E page \in ExportPages :
            /\ Len(DataRows) = Len(page)
            /\ \A i \in 1..Len(page) :
                  LET field == NoteField(DataRows[i]) IN
                  /\ field = <<Quote>> \o Escaped(page[i].note[1]) \o <<Quote>>
                  /\ \A k \in 1..Len(field) : field[k] # Comma
                  /\ WellQuoted(field)

\* the note  He said "hi", now  has been exported as  "He said ""hi""  now"
C13_Witness ==
    /\ ExportAnswered
    /\ \E i \in 1..Len(transactions) : transactions[i].note = Some(ExampleNote)
    /\ \E i \in 1..Len(DataRows) :
          NoteField(DataRows[i]) =
              <<Quote, "H", "e", " ", "s", "a", "i", "d", " ", Quote, Quote, "h", "i",
                Quote, Quote, " ", " ", "n", "o", "w", Quote>>

\* C14: in every export that is answered, the Category field of each row
\* is the transaction's category_name, and the literal Other when that
\* name is empty; no row has an empty Category field.
C14_CategoryOtherWhenEmpty ==
    ExportAnswered =>
        /\ \A i \in 1..Len(DataRows) : CategoryField(DataRows[i]) # ""
        /\ \E page \in ExportPages :
              /\ Len(DataRows) = Len(page)
              /\ \A i \in 1..Len(page) :
                    CategoryField(DataRows[i]) =
                        IF page[i].category_name = "" THEN "Other"
                        ELSE page[i].category_name

\* C15: whatever create, update and delete have left in the ledger, an
\* export with well-formed dates succeeds; it returns the header row and
\* then one row for each transaction in the date range, latest first.
C15_ExportSucceeds ==
    (/\ response.op = "export_csv"
     /\ ~(DateGiven(response.args.start_date) /\ response.args.start_date[1].kind = "malformed")
     /\ ~(DateGiven(response.args.end_date) /\ response.args.end_date[1].kind = "malformed"))
        => /\ response.status = 200
           /\ Lines(response.body.csv_content)[1] = <<"Date,Type,Category,Amount,Notes">>
           /\ \E page \in ExportPages :
                 /\ Len(DataRows) = Len(page)
                 /\ \A i \in 1..Len(page) :
                       DataRows[i][1] = strftime(page[i].date, "-")

(***************************************************************************)
(* Property of a reset that other requests overtake (SpecReset).           *)
(***************************************************************************)
\* call p takes a step that brings it to its k-th deletion done
ResetReaches(p, k) ==
    /\ calls'[p] # calls[p]
    /\ k = (IF calls[p] = Idle THEN 1 ELSE calls[p].k + 1)

\* C16: a reset is three store steps: the first empties the transactions
\* and nothing else, the second the categories and nothing else, the third
\* the reminders and nothing else, so in every execution the transactions
\* go before the categories and the categories before the reminders.
C16_ResetInThreeOrderedSteps ==
    [][\A p \in Procs :
          /\ ResetReaches(p, 1) =>
                /\ transactions' = <<>>
                /\ categories' = categories /\ reminders' = reminders
                /\ calls'[p].k = 1
          /\ ResetReaches(p, 2) =>
                /\ categories' = <<>>
                /\ transactions' = transactions /\ reminders' = reminders
                /\ calls'[p].k = 2
          /\ ResetReaches(p, 3) =>
                /\ reminders' = <<>>
                /\ transactions' = transactions /\ categories' = categories
                /\ calls'[p] = Idle
                /\ response'.op = "reset_all_data"]_vars

\* a reset has emptied the transactions it met and has not gone further;
\* a reminder list answered since then (it holds a reminder younger than a
\* transaction the reset met, and the ledger was already empty) has seen
\* the categories and the reminders still there
C16_Witness ==
    \E p \in Procs :
        /\ calls[p] # Idle
        /\ calls[p].k = 1
        /\ transactions = <<>>
        /\ categories # <<>>
        /\ reminders # <<>>
        /\ response.op = "get_reminders"
        /\ response.before.transactions = 0
        /\ response.before.categories > 0
        /\ response.body # <<>>
        /\ \E i \in 1..Len(calls[p].found), j \in 1..Len(response.body) :
              response.body[j].id > calls[p].found[i].id

(***************************************************************************)
(* Property of an update that other requests overtake (SpecUpdateRace).    *)
(***************************************************************************)
\* C18: an update with a non-empty patch that is answered neither
\* NotFound nor InvalidInput returns the record with its id in which
\* every patched field has the value of the patch, whatever updates and
\* deletes of the same record run between its write and its re-read.
C18_UpdateReturnsItsPatch ==
    (/\ response.op = "update_category"
     /\ response.status \notin {400, 404})
        => /\ response.status = 200
           /\ response.body.id = response.args.id
           /\ \A f \in NonNullFields(response.args.patch) :
                 response.body[f] = response.args.patch[f][1]

(***************************************************************************)
(* Property of the reads (specification SpecReads).                        *)
(***************************************************************************)
ReadOps ==
    {"get_transactions", "get_reminders", "get_monthly_analytics",
     "get_last_six_months", "export_csv"}

\* this step is one await of a six-month trend
TrendStep ==
    \E p \in Procs :
        /\ calls'[p] # calls[p]
        /\ calls[p] # Idle => calls[p].op = "get_last_six_months"
        /\ calls'[p] # Idle => calls'[p].op = "get_last_six_months"

\* C19: the transaction list, the reminder list, the monthly report, the
\* six-month trend (each of its six awaits) and the export leave the three
\* collections as they found them, whether they answer or fail; the
\* reminder list seeds nothing, so on an empty registry it returns nothing
\* and leaves it empty.
C19_ReadsLeaveStoreAlone ==
    [][(Answers(ReadOps) \/ TrendStep) =>
          /\ categories' = categories
          /\ transactions' = transactions
          /\ reminders' = reminders
          /\ (Answers({"get_reminders"}) /\ reminders = <<>>) =>
                (response'.body = <<>> /\ reminders' = <<>>)]_vars

\* the reminder list has been asked on an empty registry
C19_Witness ==
    /\ response.op = "get_reminders"
    /\ response.status = 200
    /\ response.before.reminders = 0
    /\ response.body = <<>>
    /\ reminders = <<>>

\* a read has failed on a store that holds records
C19_FailedReadWitness ==
    /\ response.op \in ReadOps
    /\ response.status = 500
    /\ response.before.transactions > 0
    /\ Len(transactions) = response.before.transactions

====
